---------------------------- MODULE Spec2Model ----------------------------
(***************************************************************************)
(* Credit approval system: the scoring / eligibility engine                *)
(* (credit_system/services.py, credit_system/utils.py) and the request     *)
(* handlers around it (credit_system/views.py, credit_system/tasks.py).    *)
(*                                                                         *)
(* Units.  Principal amounts, salaries, limits and debts are whole rupees. *)
(* Installments (monthly_installment, total_current_emi) are paise, the    *)
(* unit of quantize(Decimal('0.01')).  Interest rates are hundredths of a  *)
(* percent (DecimalField decimal_places=2), so 12.0% is 1200.  A date is a *)
(* month count: Year(d) = d \div 12, Month(d) = d % 12 + 1; all dates fall *)
(* on the same day of their month.                                         *)
(***************************************************************************)
EXTENDS Integers, Sequences, FiniteSets, TLC

(* ------------------------------ bounds -------------------------------- *)
MaxHistory == 2
\* the longest loan history handed to the engine in EngineSpec
MaxLongHistory == 5
\* the longest history of closed loans handed to the scoring function
MaxCustomers == 2
\* customers the store may hold
MaxLoans == 2
\* loans the store may hold
MaxRequests == 2
\* create-loan requests in flight at once
MaxAdvance == 1
\* months the clock may advance

(* ------------------------- program constants -------------------------- *)
W_on_time_payment == 40
W_loan_volume == 20
W_activity == 15
W_approved_volume == 15
W_limit_check == 10
MIN_RATE_tier_2 == 1200
MIN_RATE_tier_3 == 1600
volume_threshold_high == 5000000
volume_threshold_medium == 1000000
points_per_closed_loan == 5
points_medium_volume == 5
score_cap == 100
nearest_lakh == 100000
limit_multiplier == 36
min_loan_amount == 1000
min_tenure == 1
min_monthly_income == 1
MonthsPerYear == 12
RateDivisor == 120000
\* annual_interest_rate / Decimal(1200), the rate being in hundredths of a percent
PaisePerRupee == 100

VARIABLES customers, loans, today, requests, response, call, ret

vars == <<customers, loans, today, requests, response, call, ret>>

(* ------------------------------ helpers ------------------------------- *)
Abs(x) == IF x < 0 THEN -x ELSE x

Sign(x) == IF x < 0 THEN -1 ELSE 1

Min(a, b) == IF a <= b THEN a ELSE b

RECURSIVE GCD(_, _)
GCD(a, b) == IF b = 0 THEN a ELSE GCD(b, a % b)

RECURSIVE Pow(_, _)
Pow(x, n) == IF n = 0 THEN 1 ELSE x * Pow(x, n - 1)

Year(d) == d \div MonthsPerYear

Month(d) == (d % MonthsPerYear) + 1

\* round(): Python rounds a tie to the even neighbour, for float and for
\* Decimal alike.  num / den with den > 0, num of either sign.
RoundHalfEven(num, den) ==
    LET q == num \div den
        rem == num - q * den
    IN  IF 2 * rem < den THEN q
        ELSE IF 2 * rem > den THEN q + 1
        ELSE IF q % 2 = 0 THEN q ELSE q + 1

\* <<quotient, remainder>> of x * n by d for x >= 0, n >= 0, d > 0, by binary
\* long division, so that no intermediate value exceeds 2 * d + n.
RECURSIVE MulDiv(_, _, _)
MulDiv(x, n, d) ==
    IF x = 0 THEN <<0, 0>>
    ELSE LET h == MulDiv(x \div 2, n, d)
             t == 2 * h[2] + (x % 2) * n
         IN  <<2 * h[1] + (t \div d), t % d>>

\* Decimal.quantize(Decimal('0.01')) of the quotient (x / 100) * n / d, in
\* paise: ROUND_HALF_EVEN, symmetric in the sign.
Quantize(x, n, d) ==
    LET qr == MulDiv(Abs(x), Abs(n), Abs(d))
        q == qr[1]
        rem == qr[2]
        up == IF 2 * rem < Abs(d) THEN 0
              ELSE IF 2 * rem > Abs(d) THEN 1
              ELSE IF q % 2 = 0 THEN 0 ELSE 1
    IN  Sign(x) * Sign(n) * Sign(d) * (q + up)

(* --------------------- utils.calculate_monthly_installment ------------ *)
\* The monthly rate r = annual_interest_rate / 1200 as the fraction a / b in
\* lowest terms; (1 + r) ** n is then (a + b)^n / b^n, and for n < 0 its
\* reciprocal.  The result is the installment in paise.
\* A variant of the zero-rate branch that drops the fraction of a paisa.
ZeroRateInstallment_Truncated(principal, tenure_months) ==
    IF tenure_months > 0 THEN (principal * PaisePerRupee) \div tenure_months ELSE 0

\* Lines 23-27: the zero-rate branch, a plain division quantized to paise.
ZeroRateInstallment(principal, tenure_months) ==
    IF tenure_months = 0 THEN 0
    ELSE Quantize(principal * PaisePerRupee, 1, tenure_months)

calculate_monthly_installment(principal, annual_interest_rate, tenure_months) ==
    IF annual_interest_rate = 0
    THEN ZeroRateInstallment(principal, tenure_months)
    ELSE LET g == GCD(RateDivisor, annual_interest_rate)
             a == annual_interest_rate \div g
             b == RateDivisor \div g
             n == Abs(tenure_months)
             up == Pow(a + b, n)
             dn == Pow(b, n)
             \* pow_r_n = up / dn for n >= 0 and dn / up for n < 0
             numerator == IF tenure_months >= 0 THEN a * up ELSE a * dn
             denominator == IF tenure_months >= 0 THEN b * (up - dn)
                            ELSE b * (dn - up)
         IN  IF denominator = 0 THEN 0
             ELSE Quantize(principal * PaisePerRupee, numerator, denominator)

(* -------------------- services.calculate_credit_score ----------------- *)
\* The accumulators of the loop over customer.loans.all().
NoMetrics ==
    [total_emis_paid |-> 0, total_emis_due |-> 0, total_closed_loans |-> 0,
     total_approved_volume |-> 0, has_recent_default |-> FALSE]

\* A variant of the iteration in which the flag follows the loan at hand
\* instead of staying set.
AggregateLoan_FlagOfLastLoan(m, loan, day) ==
    LET expected_emis == (Year(day) - Year(loan.start_date)) * MonthsPerYear
                         + (Month(day) - Month(loan.start_date))
    IN  [total_emis_paid |-> m.total_emis_paid + loan.emis_paid_on_time,
         total_emis_due |-> m.total_emis_due + loan.tenure,
         total_approved_volume |-> m.total_approved_volume + loan.loan_amount,
         total_closed_loans |->
             IF loan.end_date <= day THEN m.total_closed_loans + 1
             ELSE m.total_closed_loans,
         has_recent_default |->
             /\ Year(loan.start_date) = Year(day)
             /\ expected_emis > 0
             /\ 2 * loan.emis_paid_on_time < expected_emis]

\* One iteration of the loop.
AggregateLoan(m, loan, day) ==
    LET expected_emis == (Year(day) - Year(loan.start_date)) * MonthsPerYear
                         + (Month(day) - Month(loan.start_date))
    IN  [total_emis_paid |-> m.total_emis_paid + loan.emis_paid_on_time,
         total_emis_due |-> m.total_emis_due + loan.tenure,
         total_approved_volume |-> m.total_approved_volume + loan.loan_amount,
         total_closed_loans |->
             IF loan.end_date <= day THEN m.total_closed_loans + 1
             ELSE m.total_closed_loans,
         has_recent_default |->
             IF /\ Year(loan.start_date) = Year(day)
                /\ expected_emis > 0
                /\ 2 * loan.emis_paid_on_time < expected_emis
             THEN TRUE ELSE m.has_recent_default]

RECURSIVE AggregateLoanMetrics(_, _)
AggregateLoanMetrics(all_loans, day) ==
    IF all_loans = <<>> THEN NoMetrics
    ELSE AggregateLoan(AggregateLoanMetrics(SubSeq(all_loans, 1, Len(all_loans) - 1), day),
                       all_loans[Len(all_loans)], day)

\* Mutant: int() in place of round().
OnTimeScore_Floor(m) ==
    IF m.total_emis_due > 0
    THEN (W_on_time_payment * m.total_emis_paid) \div m.total_emis_due
    ELSE 0

OnTimeScore(m) ==
    IF m.total_emis_due > 0
    THEN RoundHalfEven(W_on_time_payment * m.total_emis_paid, m.total_emis_due)
    ELSE 0

LoanVolumeScore(m) == Min(m.total_closed_loans * points_per_closed_loan, W_loan_volume)

ApprovedVolumeScore(m) ==
    IF m.total_approved_volume >= volume_threshold_high THEN W_approved_volume
    ELSE IF m.total_approved_volume >= volume_threshold_medium THEN points_medium_volume
    ELSE 0

\* Mutant: a recent default is penalised instead of merely earning nothing.
ActivityScore_Penalty(m) == IF ~m.has_recent_default THEN W_activity ELSE -W_activity

ActivityScore(m) == IF ~m.has_recent_default THEN W_activity ELSE 0

\* Mutant: the gate also fires when the sum reaches the limit exactly.
DebtLimitGate_AtLimit(customer, requested_loan_amount) ==
    customer.current_debt + requested_loan_amount >= customer.approved_limit

\* A variant with the gate taken out.
DebtLimitGate_Off(customer, requested_loan_amount) == FALSE

DebtLimitGate(customer, requested_loan_amount) ==
    customer.current_debt + requested_loan_amount > customer.approved_limit

calculate_credit_score(customer, all_loans, requested_loan_amount, day) ==
    IF DebtLimitGate(customer, requested_loan_amount) THEN 0
    ELSE LET m == AggregateLoanMetrics(all_loans, day)
         IN  Min(W_limit_check + OnTimeScore(m) + LoanVolumeScore(m)
                 + ApprovedVolumeScore(m) + ActivityScore(m), score_cap)

(* -------------------- services.check_loan_eligibility ----------------- *)
\* Mutant: the gate also fires at exactly half the salary.
SalaryGate_AtHalf(customer) ==
    2 * customer.total_current_emi >= customer.monthly_salary * PaisePerRupee

SalaryGate(customer) ==
    \* total_current_emi > monthly_salary / Decimal(2), in paise
    2 * customer.total_current_emi > customer.monthly_salary * PaisePerRupee

\* Mutant: the lowest slab includes score 10.
ScoreApproves_From10(credit_score) == credit_score >= 10

ScoreApproves(credit_score) ==
    IF credit_score > 50 THEN TRUE
    ELSE IF 30 < credit_score /\ credit_score <= 50 THEN TRUE
    ELSE IF 10 < credit_score /\ credit_score <= 30 THEN TRUE
    ELSE FALSE

RequiredMinRate(credit_score) ==
    IF credit_score > 50 THEN 0
    ELSE IF 30 < credit_score /\ credit_score <= 50 THEN MIN_RATE_tier_2
    ELSE IF 10 < credit_score /\ credit_score <= 30 THEN MIN_RATE_tier_3
    ELSE 0

\* Mutant: the slab minimum is never enforced.
CorrectedRate_NoRaise(approved, requested_rate, required_min_rate) == requested_rate

CorrectedRate(approved, requested_rate, required_min_rate) ==
    IF approved /\ requested_rate < required_min_rate THEN required_min_rate
    ELSE requested_rate

\* Mutant: the installment is computed at the requested rate.
FinalInstallment_RequestedRate(approved, loan_amount, requested_rate, corrected_rate, tenure) ==
    IF approved
    THEN calculate_monthly_installment(loan_amount, requested_rate, tenure)
    ELSE 0

\* emi_rate and monthly_installment (step 5): the corrected rate when approved.
FinalInstallment(approved, loan_amount, requested_rate, corrected_rate, tenure) ==
    IF approved
    THEN calculate_monthly_installment(loan_amount,
                                       IF approved THEN corrected_rate ELSE 0, tenure)
    ELSE 0

check_loan_eligibility(customer, all_loans, loan_amount, requested_rate, tenure, day) ==
    LET credit_score == calculate_credit_score(customer, all_loans, loan_amount, day)
        approved == ScoreApproves(credit_score)
        corrected_rate == CorrectedRate(approved, requested_rate,
                                        RequiredMinRate(credit_score))
    IN  IF SalaryGate(customer)
        THEN [approval |-> FALSE,
              corrected_interest_rate |-> requested_rate,
              monthly_installment |-> 0,
              message |-> "Total current EMIs exceed 50% of monthly salary.",
              credit_score |-> credit_score]
        ELSE [approval |-> approved,
              interest_rate |-> requested_rate,
              corrected_interest_rate |-> corrected_rate,
              tenure |-> tenure,
              monthly_installment |->
                  FinalInstallment(approved, loan_amount, requested_rate,
                                   corrected_rate, tenure),
              credit_score |-> credit_score,
              message |-> IF approved THEN "Loan approved."
                          ELSE "Credit score too low for loan approval."]

(* ------------------------ the engine called alone --------------------- *)
\* Inputs of the engine's three functions.  Every LoanRecord satisfies the
\* data model: 0 <= emis_paid_on_time <= tenure, start_date < end_date.
Loan(id, cid, amount, tenure, rate, emi, paid, start, end, active) ==
    [loan_id |-> id, customer_id |-> cid, loan_amount |-> amount, tenure |-> tenure,
     interest_rate |-> rate, monthly_installment |-> emi,
     emis_paid_on_time |-> paid, start_date |-> start, end_date |-> end,
     is_active |-> active]

Customer(id, phone, salary, limit, debt, emi) ==
    [customer_id |-> id, phone_number |-> phone, monthly_salary |-> salary,
     approved_limit |-> limit, current_debt |-> debt, total_current_emi |-> emi]

EvalDays == {18, 19}
\* July and August of year 1

LoanShapes ==
    { Loan(1, 1, 200000, 2, 1200, 10150000, 1, 2, 4, FALSE),    \* closed, half paid
      Loan(2, 1, 200000, 3, 1200, 6800000, 1, 3, 6, FALSE),     \* closed, a third paid
      Loan(3, 1, 1000, 2, 1200, 50750, 0, 5, 7, FALSE),         \* closed, nothing paid
      Loan(4, 1, 1000, 12, 1200, 8885, 0, 14, 26, TRUE),        \* this year, nothing paid
      Loan(5, 1, 5000000, 16, 1200, 33972000, 1, 0, 16, FALSE), \* 40 * 1/16 = 2.5
      Loan(6, 1, 1000000, 16, 1200, 6794400, 3, 10, 26, TRUE),  \* 40 * 3/16 = 7.5
      Loan(7, 1, 1000, 3, 1600, 34226, 0, 18, 21, TRUE),        \* started in month 18
      Loan(8, 1, 1000, 2, 1600, 51003, 2, 6, 8, FALSE),         \* closed, fully paid
      Loan(9, 1, 1000, 4, 1600, 25837, 1, 16, 20, TRUE),        \* this year, one paid
      Loan(10, 1, 5000000, 2, 1200, 253756219, 2, 8, 10, FALSE) } \* closed, fully paid

Histories == UNION { [1..n -> LoanShapes] : n \in 0..MaxHistory }

\* Longer histories, of closed loans only, for the scoring function.
ClosedShapes == { l \in LoanShapes : l.loan_id \in {1, 3, 8, 10} }

LongHistories ==
    UNION { [1..n -> ClosedShapes] : n \in (MaxHistory + 1)..MaxLongHistory }

Profiles ==
    { Customer(1, 1, 50000, 1800000, 0, 0),
      Customer(1, 1, 50000, 1800000, 1799000, 2500000),
      Customer(1, 1, 50000, 1800000, 0, 2500001),
      Customer(1, 1, 50000, 1800000, 1799000, 3000000) }

EngineAmounts == {1000, 1001, -1000}

EngineRates == {0, 1000, 1200, 1600, 2000}

EngineTenures == {-1, 0, 1, 3}

\* Tenures tried at rate 0 only (the powers of a compounded tenure of 8 do
\* not fit TLC's 32-bit integers): 1001 / 8 = 125.125 lies halfway between
\* two paise values.
ZeroRateTenures == EngineTenures \cup {8}

EngineCall(fn, customer, history, amount, rate, tenure) ==
    [fn |-> fn, customer |-> customer, history |-> history, loan_amount |-> amount,
     requested_rate |-> rate, tenure |-> tenure]

NoCall == EngineCall("none", Customer(0, 0, 0, 0, 0, 0), <<>>, 0, 0, 0)

\* The calls made of the engine: score(profile, history, amount),
\* decide(profile, history, amount, rate, tenure) and installment(amount, rate,
\* tenure).
IsEngineCall(x) ==
    \/ \E c \in Profiles, h \in Histories \cup LongHistories, a \in EngineAmounts :
           x = EngineCall("score", c, h, a, 0, 0)
    \/ \E a \in EngineAmounts, r \in EngineRates, t \in ZeroRateTenures :
           /\ t \in EngineTenures \/ r = 0
           /\ x = EngineCall("installment", NoCall.customer, <<>>, a, r, t)
    \/ \E c \in Profiles, h \in Histories, a \in EngineAmounts, r \in EngineRates,
          t \in EngineTenures :
           x = EngineCall("eligibility", c, h, a, r, t)

Pending == [status |-> "pending"]

Returned(value) == [status |-> "returned", value |-> value]

NoRequests == [i \in 1..MaxRequests |-> [pc |-> "idle"]]

NoResponse == [op |-> "none"]

EngineInit ==
    /\ customers = {}
    /\ loans = {}
    /\ requests = NoRequests
    /\ response = NoResponse
    /\ today \in EvalDays
    /\ IsEngineCall(call)
    /\ ret = Pending

ScoreCall ==
    /\ call.fn = "score"
    /\ ret = Pending
    /\ ret' = Returned(calculate_credit_score(call.customer, call.history,
                                              call.loan_amount, today))
    /\ UNCHANGED <<customers, loans, today, requests, response, call>>

EligibilityCall ==
    /\ call.fn = "eligibility"
    /\ ret = Pending
    /\ ret' = Returned(check_loan_eligibility(call.customer, call.history,
                                              call.loan_amount, call.requested_rate,
                                              call.tenure, today))
    /\ UNCHANGED <<customers, loans, today, requests, response, call>>

InstallmentCall ==
    /\ call.fn = "installment"
    /\ ret = Pending
    /\ ret' = Returned(calculate_monthly_installment(call.loan_amount,
                                                     call.requested_rate, call.tenure))
    /\ UNCHANGED <<customers, loans, today, requests, response, call>>

EngineNext == ScoreCall \/ EligibilityCall \/ InstallmentCall

EngineSpec == EngineInit /\ [][EngineNext]_vars

(* ===================== the request handlers and the store ============= *)
NullId == 0
\* loan_id = None

StartDays == {10}
\* November of year 0

LastDay == (CHOOSE d \in StartDays : \A e \in StartDays : e <= d) + MaxAdvance

Incomes == {0, 5000, 12500, 100000}
\* 0 fails the serializer (min_value=1); 36 * 5000 is 1.8 lakh, rounded up;
\* 36 * 12500 is 4.5 lakh, a tie

Phones == {1, 2}

Amounts == {1000, 3600000}

Rates == {1000}

Tenures == {0, 1}
\* 0 fails the serializer (min_value=1)

\* customer_data.xlsx and loan_data.xlsx: well-formed files (distinct ids,
\* every loan's customer in the customer file).
IngestFiles ==
    { [customer_rows |-> { [customer_id |-> 1, phone_number |-> 1,
                            monthly_salary |-> 50000, approved_limit |-> 1800000] },
       loan_rows |-> { [customer_id |-> 1, loan_id |-> 1, loan_amount |-> 200000,
                        tenure |-> 11, interest_rate |-> 1200,
                        monthly_installment |-> 1929000, emis_paid_on_time |-> 9,
                        start_date |-> 0, end_date |-> 11] } ] }

CustomerIds == 1..MaxCustomers

LoanIds == 1..MaxLoans

MaxId(ids) == IF ids = {} THEN 0 ELSE CHOOSE m \in ids : \A x \in ids : x <= m

\* customer.loans.all(), in primary-key order
RECURSIVE LoansInOrder(_)
LoansInOrder(S) ==
    IF S = {} THEN <<>>
    ELSE LET first == CHOOSE l \in S : \A o \in S : l.loan_id <= o.loan_id
         IN  <<first>> \o LoansInOrder(S \ {first})

LoansOf(cid) == LoansInOrder({l \in loans : l.customer_id = cid})

RECURSIVE SumOf(_, _)
SumOf(S, field) ==
    IF S = {} THEN 0
    ELSE LET x == CHOOSE y \in S : TRUE
         IN  field[x] + SumOf(S \ {x}, field)

\* LoanRequestSerializer.is_valid()
LoanRequestValid(amount, rate, tenure) ==
    amount >= min_loan_amount /\ rate >= 0 /\ tenure >= min_tenure

\* The loan requests tried: every valid one, and one invalid one (the answer
\* to an invalid request is given before anything is looked up).
RequestTried(customer_id, amount, tenure) ==
    tenure >= min_tenure \/ (customer_id = 1 /\ amount = min_loan_amount)

\* A variant that cuts the quotient instead of rounding it.
ApprovedLimit_Truncated(monthly_salary) ==
    ((limit_multiplier * monthly_salary) \div nearest_lakh) * nearest_lakh

\* approved_limit = int(round(36 * salary / 100000) * 100000)
ApprovedLimit(monthly_salary) ==
    RoundHalfEven(limit_multiplier * monthly_salary, nearest_lakh) * nearest_lakh

Init ==
    /\ customers = {}
    /\ loans = {}
    /\ today \in StartDays
    /\ requests = NoRequests
    /\ response = NoResponse
    /\ call = NoCall
    /\ ret = Pending

\* tasks.ingest_initial_data
Ingest ==
    \E file \in IngestFiles :
        LET active == {row \in file.loan_rows : row.end_date > today}
            of(cid) == {row \in active : row.customer_id = cid}
            new_customers ==
                { Customer(row.customer_id, row.phone_number, row.monthly_salary,
                           row.approved_limit,
                           SumOf(of(row.customer_id),
                                 [r \in of(row.customer_id) |-> r.loan_amount]),
                           SumOf(of(row.customer_id),
                                 [r \in of(row.customer_id) |-> r.monthly_installment]))
                  : row \in { r \in file.customer_rows :
                                \A c \in customers :
                                    /\ c.customer_id # r.customer_id
                                    /\ c.phone_number # r.phone_number } }
            new_loans ==
                { Loan(row.loan_id, row.customer_id, row.loan_amount, row.tenure,
                       row.interest_rate, row.monthly_installment,
                       row.emis_paid_on_time, row.start_date, row.end_date,
                       row.end_date > today)
                  : row \in { r \in file.loan_rows :
                                \A l \in loans : l.loan_id # r.loan_id } }
            foreign_keys_hold ==
                \A l \in new_loans :
                    \E c \in customers \cup new_customers : c.customer_id = l.customer_id
        IN  /\ Cardinality(customers \cup new_customers) <= MaxCustomers
            /\ Cardinality(loans \cup new_loans) <= MaxLoans
            /\ IF foreign_keys_hold
               THEN /\ customers' = customers \cup new_customers
                    /\ loans' = loans \cup new_loans
                    /\ response' = [op |-> "ingest", status |-> 200]
               ELSE /\ UNCHANGED <<customers, loans>>
                    /\ response' = [op |-> "ingest", status |-> 500]
            /\ UNCHANGED <<today, requests, call, ret>>

\* A variant of the lookup that finds nothing.
PhoneTaken_Never(phone_number) == FALSE

\* Customer.objects.filter(phone_number=phone_number).exists()
PhoneTaken(phone_number) == \E c \in customers : c.phone_number = phone_number

\* Phone numbers are interchangeable: a request comes with a number already
\* stored or with the lowest one that is not.
PhoneTried(phone_number, phones) ==
    \/ PhoneTaken(phone_number)
    \/ \A p \in phones : p < phone_number => PhoneTaken(p)

\* RegisterCustomerView.post
RegisterCustomer(incomes, phones) ==
    \E monthly_income \in incomes, phone_number \in phones :
        /\ Cardinality(customers) < MaxCustomers
        /\ PhoneTried(phone_number, phones)
        /\ IF monthly_income < min_monthly_income
           THEN /\ response' = [op |-> "register", status |-> 400]
                /\ UNCHANGED customers
           ELSE IF PhoneTaken(phone_number)
           THEN /\ response' = [op |-> "register", status |-> 409]
                /\ UNCHANGED customers
           ELSE LET new_customer_id == MaxId({c.customer_id : c \in customers}) + 1
                    customer == Customer(new_customer_id, phone_number, monthly_income,
                                         ApprovedLimit(monthly_income), 0, 0)
                IN  /\ customers' = customers \cup {customer}
                    /\ response' = [op |-> "register", status |-> 201,
                                    customer_id |-> customer.customer_id,
                                    monthly_income |-> customer.monthly_salary,
                                    approved_limit |-> customer.approved_limit,
                                    phone_number |-> customer.phone_number]
        /\ UNCHANGED <<loans, today, requests, call, ret>>

Register == RegisterCustomer(Incomes, Phones)

\* CheckEligibilityView.post
CheckEligibility ==
    \E customer_id \in CustomerIds, loan_amount \in Amounts, interest_rate \in Rates,
       tenure \in Tenures :
        /\ RequestTried(customer_id, loan_amount, tenure)
        /\ IF ~LoanRequestValid(loan_amount, interest_rate, tenure)
           THEN response' = [op |-> "check-eligibility", status |-> 400]
           ELSE IF ~\E c \in customers : c.customer_id = customer_id
           THEN response' = [op |-> "check-eligibility", status |-> 404]
           ELSE LET customer == CHOOSE c \in customers : c.customer_id = customer_id
                    eligibility_result ==
                        check_loan_eligibility(customer, LoansOf(customer_id),
                                               loan_amount, interest_rate, tenure, today)
                IN  response' =
                        [op |-> "check-eligibility", status |-> 200,
                         customer_id |-> customer.customer_id,
                         approval |-> eligibility_result.approval,
                         interest_rate |-> interest_rate,
                         corrected_interest_rate |->
                             eligibility_result.corrected_interest_rate,
                         tenure |-> tenure,
                         monthly_installment |-> eligibility_result.monthly_installment]
        /\ UNCHANGED <<customers, loans, today, requests, call, ret>>

\* CreateLoanView.post, lines 163-188: the Loan row created for an approved
\* request, starting on today_date and ending tenure months later.
NewLoan(new_loan_id, customer, loan_amount, tenure, corrected_rate, monthly_installment, today_date) ==
    Loan(new_loan_id, customer.customer_id, loan_amount, tenure, corrected_rate,
         monthly_installment, 0, today_date, today_date + tenure, TRUE)

NextLoanId == MaxId({l.loan_id : l \in loans}) + 1

\* A variant of the save that leaves total_current_emi out of update_fields.
CustomersAfterSave_DebtOnly(customer, loan_amount, monthly_installment) ==
    { IF c.customer_id = customer.customer_id
      THEN [c EXCEPT !.current_debt = customer.current_debt + loan_amount]
      ELSE c : c \in customers }

\* CreateLoanView.post, lines 193-195: the two columns are written from the
\* Customer object the handler read at line 144.
CustomersAfterSave(customer, loan_amount, monthly_installment) ==
    { IF c.customer_id = customer.customer_id
      THEN [c EXCEPT !.current_debt = customer.current_debt + loan_amount,
                     !.total_current_emi =
                         customer.total_current_emi + monthly_installment]
      ELSE c : c \in customers }

\* CreateLoanView.post, lines 198-207
CreateLoanResponse(loan_id, customer, loan_approved, message, monthly_installment) ==
    [op |-> "create-loan",
     status |-> IF loan_approved THEN 201 ELSE 200,
     loan_id |-> loan_id,
     customer_id |-> customer.customer_id,
     loan_approved |-> loan_approved,
     message |-> message,
     monthly_installment |-> monthly_installment]

\* CreateLoanView.post run from its first line to its last with no other
\* handler in between.
CreateLoan ==
    \E customer_id \in CustomerIds, loan_amount \in Amounts, interest_rate \in Rates,
       tenure \in Tenures :
        /\ RequestTried(customer_id, loan_amount, tenure)
        /\ IF ~LoanRequestValid(loan_amount, interest_rate, tenure)
           THEN /\ response' = [op |-> "create-loan", status |-> 400]
                /\ UNCHANGED <<customers, loans>>
           ELSE IF ~\E c \in customers : c.customer_id = customer_id
           THEN /\ response' = [op |-> "create-loan", status |-> 404]
                /\ UNCHANGED <<customers, loans>>
           ELSE LET customer == CHOOSE c \in customers : c.customer_id = customer_id
                    eligibility_result ==
                        check_loan_eligibility(customer, LoansOf(customer_id),
                                               loan_amount, interest_rate, tenure, today)
                    monthly_installment == eligibility_result.monthly_installment
                IN  IF eligibility_result.approval
                    THEN /\ Cardinality(loans) < MaxLoans
                         /\ loans' = loans \cup
                                {NewLoan(NextLoanId, customer, loan_amount, tenure,
                                         eligibility_result.corrected_interest_rate,
                                         monthly_installment, today)}
                         /\ customers' = CustomersAfterSave(customer, loan_amount,
                                                            monthly_installment)
                         /\ response' =
                                CreateLoanResponse(NextLoanId, customer, TRUE,
                                    "Loan approved and processed successfully.",
                                    monthly_installment)
                    ELSE /\ UNCHANGED <<customers, loans>>
                         /\ response' =
                                CreateLoanResponse(NullId, customer, FALSE,
                                                   eligibility_result.message,
                                                   monthly_installment)
        /\ UNCHANGED <<today, requests, call, ret>>

\* ViewLoanDetailsView.retrieve
ViewLoan ==
    \E loan_id \in LoanIds :
        /\ IF \E l \in loans : l.loan_id = loan_id
           THEN LET instance == CHOOSE l \in loans : l.loan_id = loan_id
                IN  response' = [op |-> "view-loan", status |-> 200,
                                 loan_id |-> instance.loan_id,
                                 customer_id |-> instance.customer_id,
                                 loan_amount |-> instance.loan_amount,
                                 interest_rate |-> instance.interest_rate,
                                 monthly_installment |-> instance.monthly_installment,
                                 tenure |-> instance.tenure]
           ELSE response' = [op |-> "view-loan", status |-> 404]
        /\ UNCHANGED <<customers, loans, today, requests, call, ret>>

\* ViewCustomerLoansView.get
ViewLoans ==
    \E customer_id \in CustomerIds :
        /\ IF \E c \in customers : c.customer_id = customer_id
           THEN response' =
                    [op |-> "view-loans", status |-> 200,
                     loan_list |->
                         { [loan_id |-> l.loan_id, loan_amount |-> l.loan_amount,
                            interest_rate |-> l.interest_rate,
                            monthly_installment |-> l.monthly_installment,
                            repayments_left |-> l.tenure - l.emis_paid_on_time]
                           : l \in { x \in loans : /\ x.customer_id = customer_id
                                                   /\ x.end_date > today } }]
           ELSE response' = [op |-> "view-loans", status |-> 404]
        /\ UNCHANGED <<customers, loans, today, requests, call, ret>>

\* date.today() moves on by a month
AdvanceDate ==
    /\ today < LastDay
    /\ today' = today + 1
    /\ UNCHANGED <<customers, loans, requests, response, call, ret>>

Next ==
    \/ Ingest
    \/ Register
    \/ CheckEligibility
    \/ CreateLoan
    \/ ViewLoan
    \/ ViewLoans
    \/ AdvanceDate

Spec == Init /\ [][Next]_vars

(* ------------- create-loan requests handled at the same time ---------- *)
\* CreateLoanView.post, lines 138-144: validation and get_object_or_404.  The
\* handler keeps the Customer object it has read.  Handlers are anonymous: a
\* new request takes the lowest free slot.
CreateLoanRead(i) ==
    \E customer_id \in CustomerIds, loan_amount \in Amounts, interest_rate \in Rates,
       tenure \in Tenures :
        /\ RequestTried(customer_id, loan_amount, tenure)
        /\ requests[i].pc = "idle"
        /\ \A j \in 1..(i - 1) : requests[j].pc # "idle"
        /\ IF ~LoanRequestValid(loan_amount, interest_rate, tenure)
           THEN /\ response' = [op |-> "create-loan", status |-> 400]
                /\ UNCHANGED requests
           ELSE IF ~\E c \in customers : c.customer_id = customer_id
           THEN /\ response' = [op |-> "create-loan", status |-> 404]
                /\ UNCHANGED requests
           ELSE /\ requests' =
                      [requests EXCEPT ![i] =
                           [pc |-> "loaded",
                            customer |-> CHOOSE c \in customers : c.customer_id = customer_id,
                            loan_amount |-> loan_amount,
                            interest_rate |-> interest_rate,
                            tenure |-> tenure]]
                /\ UNCHANGED response
        /\ UNCHANGED <<customers, loans, today, call, ret>>

\* CreateLoanView.post, lines 147-157 and, when rejected, 198-207: the
\* eligibility check on the object read earlier and the loans stored now.
CreateLoanEvaluate(i) ==
    /\ requests[i].pc = "loaded"
    /\ LET r == requests[i]
           eligibility_result ==
               check_loan_eligibility(r.customer, LoansOf(r.customer.customer_id),
                                      r.loan_amount, r.interest_rate, r.tenure, today)
       IN  IF eligibility_result.approval
           THEN /\ requests' =
                      [requests EXCEPT ![i] =
                           [pc |-> "approved", customer |-> r.customer,
                            loan_amount |-> r.loan_amount, tenure |-> r.tenure,
                            corrected_interest_rate |->
                                eligibility_result.corrected_interest_rate,
                            monthly_installment |->
                                eligibility_result.monthly_installment]]
                /\ UNCHANGED response
           ELSE /\ requests' = [requests EXCEPT ![i] = [pc |-> "idle"]]
                /\ response' = CreateLoanResponse(NullId, r.customer, FALSE,
                                                  eligibility_result.message,
                                                  eligibility_result.monthly_installment)
    /\ UNCHANGED <<customers, loans, today, call, ret>>

\* CreateLoanView.post, lines 161-174: inside the transaction, the next loan id
\* from the committed loans, and the dates.
CreateLoanPickId(i) ==
    /\ requests[i].pc = "approved"
    /\ LET r == requests[i]
       IN  requests' =
               [requests EXCEPT ![i] =
                    [pc |-> "writing", customer |-> r.customer,
                     loan_amount |-> r.loan_amount, tenure |-> r.tenure,
                     corrected_interest_rate |-> r.corrected_interest_rate,
                     monthly_installment |-> r.monthly_installment,
                     new_loan_id |-> NextLoanId,
                     today_date |-> today]]
    /\ UNCHANGED <<customers, loans, today, response, call, ret>>

\* CreateLoanView.post, lines 177-207: the insert, the update of the two
\* columns, the commit and the response.  An id taken meanwhile fails the
\* insert (IntegrityError), the transaction rolls back and the request ends
\* with a server error.
CreateLoanWrite(i) ==
    /\ requests[i].pc = "writing"
    /\ LET r == requests[i]
       IN  IF \E l \in loans : l.loan_id = r.new_loan_id
           THEN /\ UNCHANGED <<customers, loans>>
                /\ response' = [op |-> "create-loan", status |-> 500]
           ELSE /\ Cardinality(loans) < MaxLoans
                /\ loans' = loans \cup
                       {NewLoan(r.new_loan_id, r.customer, r.loan_amount, r.tenure,
                                r.corrected_interest_rate, r.monthly_installment,
                                r.today_date)}
                /\ customers' = CustomersAfterSave(r.customer, r.loan_amount,
                                                   r.monthly_installment)
                /\ response' = CreateLoanResponse(r.new_loan_id, r.customer, TRUE,
                                   "Loan approved and processed successfully.",
                                   r.monthly_installment)
    /\ requests' = [requests EXCEPT ![i] = [pc |-> "idle"]]
    /\ UNCHANGED <<today, call, ret>>

\* One phone number: the requests in flight are for the same customer.
RegisterOne == RegisterCustomer(Incomes, {1})

ConcurrentNext ==
    \/ RegisterOne
    \/ \E i \in 1..MaxRequests : CreateLoanRead(i)
    \/ \E i \in 1..MaxRequests : CreateLoanEvaluate(i)
    \/ \E i \in 1..MaxRequests : CreateLoanPickId(i)
    \/ \E i \in 1..MaxRequests : CreateLoanWrite(i)
    \/ AdvanceDate

ConcurrentSpec == Init /\ [][ConcurrentNext]_vars



(* ============================ the claims ============================== *)
SalaryMessage == "Total current EMIs exceed 50% of monthly salary."

ScoreTooLowMessage == "Credit score too low for loan approval."

ScoreReturned == call.fn = "score" /\ ret.status = "returned"

EligibilityReturned == call.fn = "eligibility" /\ ret.status = "returned"

RequestedTotal == call.customer.current_debt + call.loan_amount

SalaryExceeded == 2 * call.customer.total_current_emi > call.customer.monthly_salary * 100

RECURSIVE SumSeq(_)
SumSeq(xs) == IF xs = <<>> THEN 0 ELSE xs[1] + SumSeq(Tail(xs))

\* C1: whenever currentDebt + proposedAmount > approvedLimit the score is 0,
\* whatever the history holds; when the sum is at or below the limit the gate
\* does not fire (the score keeps at least the 10 base points).
C1_DebtGateZeroesScore ==
    /\ ScoreReturned =>
         /\ RequestedTotal > call.customer.approved_limit => ret.value = 0
         /\ RequestedTotal <= call.customer.approved_limit => ret.value >= 10
    /\ EligibilityReturned =>
         /\ RequestedTotal > call.customer.approved_limit => ret.value.credit_score = 0
         /\ RequestedTotal <= call.customer.approved_limit => ret.value.credit_score >= 10

C1_Witness ==
    /\ ScoreReturned
    /\ RequestedTotal > call.customer.approved_limit
    /\ \E i \in DOMAIN call.history :
           call.history[i].emis_paid_on_time = call.history[i].tenure
    /\ ret.value = 0

\* C2: if the current total EMI is strictly above half the monthly income the
\* decision is a rejection with installment 0, the requested rate unchanged and
\* the salary message, whatever the score; at exactly half the gate is silent.
C2_SalaryGateRejects ==
    EligibilityReturned =>
        IF SalaryExceeded
        THEN /\ ret.value.approval = FALSE
             /\ ret.value.monthly_installment = 0
             /\ ret.value.corrected_interest_rate = call.requested_rate
             /\ ret.value.message = SalaryMessage
        ELSE ret.value.message # SalaryMessage

C2_Witness ==
    /\ EligibilityReturned
    /\ SalaryExceeded
    /\ ret.value.credit_score > 50
    /\ ret.value.approval = FALSE
    /\ ret.value.message = SalaryMessage

\* C3: without the salary gate the loan is approved iff score > 10; a rejected
\* one carries the score-too-low message; score 30 is held to 16.0%, score 50
\* to 12.0%, and score 51 to no minimum.
C3_ApprovedIffScoreAbove10 ==
    (EligibilityReturned /\ ~SalaryExceeded) =>
        LET score == ret.value.credit_score
            corrected == ret.value.corrected_interest_rate
        IN  /\ ret.value.approval <=> score > 10
            /\ score <= 10 => ret.value.message = ScoreTooLowMessage
            /\ score > 10 => ret.value.message = "Loan approved."
            /\ (score = 30 /\ call.requested_rate < 1600) => corrected = 1600
            /\ (score = 50 /\ call.requested_rate < 1200) => corrected = 1200
            /\ (score = 50 /\ call.requested_rate >= 1200) => corrected = call.requested_rate
            /\ score = 51 => corrected = call.requested_rate

C3_Witness ==
    /\ EligibilityReturned
    /\ ~SalaryExceeded
    /\ ret.value.credit_score = 10
    /\ ret.value.approval = FALSE
    /\ ret.value.message = ScoreTooLowMessage

\* C4: an approved decision's corrected rate is the larger of the requested
\* rate and the slab minimum (none above 50, 12.0 for 31..50, 16.0 for 11..30);
\* a rejected decision's corrected rate is the requested rate.
C4_CorrectedRateIsMaxOfRequestedAndTier ==
    EligibilityReturned =>
        LET score == ret.value.credit_score
            tier == IF score > 50 THEN 0 ELSE IF score > 30 THEN 1200 ELSE 1600
            corrected == ret.value.corrected_interest_rate
        IN  IF ret.value.approval
            THEN corrected = (IF call.requested_rate >= tier THEN call.requested_rate
                              ELSE tier)
            ELSE corrected = call.requested_rate

C4_Witness ==
    /\ EligibilityReturned
    /\ ret.value.approval
    /\ ret.value.credit_score = 25
    /\ call.requested_rate = 1000
    /\ ret.value.corrected_interest_rate = 1600

\* C5: create-loan requests for one customer are serialized: a request that
\* commits wrote its decision on the customer's current figures (so it has seen
\* what the other committed and overwrites none of it), and current_debt never
\* ends above approved_limit.
C5_UpdatesSerialized ==
    [][\A i \in 1..MaxRequests :
           (requests[i].pc = "writing" /\ loans' # loans) =>
               /\ \A c \in customers :
                      c.customer_id = requests[i].customer.customer_id =>
                          /\ c.current_debt = requests[i].customer.current_debt
                          /\ c.total_current_emi = requests[i].customer.total_current_emi
               /\ \A c \in customers' : c.current_debt <= c.approved_limit]_vars

\* C6: in every reachable state each customer's current_debt is the sum of the
\* principals of the customer's active loans and total_current_emi the sum of
\* their installments, a loan being active iff its end date is after today.
ActiveLoansOf(c) == {l \in loans : l.customer_id = c.customer_id /\ l.end_date > today}

C6_DebtMatchesActiveLoans ==
    \A c \in customers :
        /\ c.current_debt =
               SumOf(ActiveLoansOf(c), [l \in ActiveLoansOf(c) |-> l.loan_amount])
        /\ c.total_current_emi =
               SumOf(ActiveLoansOf(c), [l \in ActiveLoansOf(c) |-> l.monthly_installment])

\* C7: for histories satisfying the data model the score is an integer in
\* 0..100, and the base plus the four components never exceeds 100 (the cap
\* never binds).
C7_ScoreInRange ==
    ScoreReturned =>
        /\ ret.value \in 0..100
        /\ RequestedTotal <= call.customer.approved_limit =>
             LET m == AggregateLoanMetrics(call.history, today)
             IN  ret.value = W_limit_check + OnTimeScore(m) + LoanVolumeScore(m)
                             + ApprovedVolumeScore(m) + ActivityScore(m)

C7_Witness ==
    /\ ScoreReturned
    /\ RequestedTotal <= call.customer.approved_limit
    /\ Len(call.history) = 4
    /\ ret.value = 100

\* C8: with the gate silent the score is 10 + round(40 * paid / due) (0 when
\* due = 0) + min(5 * closed, 20) + the volume tier (15 from 5,000,000, 5 from
\* 1,000,000) + the activity component (15 or 0), capped at 100; an empty
\* history scores 25.
C8_ScoreFormula ==
    (ScoreReturned /\ RequestedTotal <= call.customer.approved_limit) =>
        LET h == call.history
            paid == SumSeq([i \in DOMAIN h |-> h[i].emis_paid_on_time])
            due == SumSeq([i \in DOMAIN h |-> h[i].tenure])
            volume == SumSeq([i \in DOMAIN h |-> h[i].loan_amount])
            closed == Cardinality({i \in DOMAIN h : h[i].end_date <= today})
            tier == IF volume >= 5000000 THEN 15 ELSE IF volume >= 1000000 THEN 5 ELSE 0
            capped == IF 5 * closed <= 20 THEN 5 * closed ELSE 20
        IN  /\ \E r \in 0..40, act \in {0, 15} :
                /\ due = 0 => r = 0
                /\ due > 0 => 2 * Abs(r * due - 40 * paid) <= due
                /\ LET sum == 10 + r + capped + tier + act
                   IN  ret.value = IF sum <= 100 THEN sum ELSE 100
            /\ h = <<>> => ret.value = 25

\* Five closed loans (the cap of 20 binds), 4 of 10 installments paid on
\* time, a principal total of 5,004,000: 10 + 16 + 20 + 15 + 15.
C8_Witness ==
    /\ ScoreReturned
    /\ RequestedTotal <= call.customer.approved_limit
    /\ Len(call.history) = 5
    /\ SumSeq([i \in DOMAIN call.history |-> call.history[i].emis_paid_on_time]) = 4
    /\ SumSeq([i \in DOMAIN call.history |-> call.history[i].loan_amount]) = 5004000
    /\ ret.value = 76

\* C9: an approved decision's installment is the amortization formula applied
\* to the requested amount, the corrected rate and the tenure; a rejected
\* decision's installment is 0.
C9_InstallmentUsesCorrectedRate ==
    EligibilityReturned =>
        IF ret.value.approval
        THEN ret.value.monthly_installment =
                 calculate_monthly_installment(call.loan_amount,
                                               ret.value.corrected_interest_rate,
                                               call.tenure)
        ELSE ret.value.monthly_installment = 0

C9_Witness ==
    /\ EligibilityReturned
    /\ ret.value.approval
    /\ call.loan_amount = 1000
    /\ call.tenure = 3
    /\ call.requested_rate = 1000
    /\ ret.value.corrected_interest_rate = 1600
    /\ ret.value.monthly_installment = 34226
    /\ ret.value.monthly_installment #
           calculate_monthly_installment(call.loan_amount, call.requested_rate, call.tenure)

\* C10: a call of score, decide or installment with invalid input (tenure <= 0
\* or a negative principal) is rejected with an error, not answered.
InvalidInput ==
    \/ call.fn \in {"score", "eligibility", "installment"} /\ call.loan_amount < 0
    \/ call.fn \in {"eligibility", "installment"} /\ call.tenure <= 0

C10_InvalidInputRejected ==
    (InvalidInput /\ ret.status # "pending") => ret.status = "raised"

\* C11: at rate 0 and tenure n > 0 the installment is principal / n rounded
\* to the nearest paisa, with no compounding; at rate 0 with tenure 0, and at
\* tenure 0 with any rate (the compounding denominator is then exactly 0), the
\* call returns 0 and raises nothing.
InstallmentReturned == call.fn = "installment" /\ ret.status = "returned"

C11_ZeroRateIsPlainDivision ==
    /\ (call.fn = "installment" /\ ret.status # "pending") => ret.status = "returned"
    /\ InstallmentReturned =>
          /\ (call.requested_rate = 0 /\ call.tenure > 0) =>
                 2 * Abs(call.loan_amount * 100 - ret.value * call.tenure) <= call.tenure
          /\ call.tenure = 0 => ret.value = 0

\* 1001 over 8 months: 125.125 is a tie and comes back as 125.12.
C11_Witness ==
    /\ InstallmentReturned
    /\ call.requested_rate = 0
    /\ call.loan_amount = 1001
    /\ call.tenure = 8
    /\ ret.value = 12512

\* C12: a successful register request stores one new customer with current
\* debt 0 and current EMI 0 and returns that customer's approved_limit, which
\* is a multiple of 100,000 nearest to 36 x monthly_income (at most 50,000
\* away, ties included); income 100,000 gives 3,600,000.
RegisterSucceeded(r) == r.op = "register" /\ r.status = 201

C12_RegisterStoresRoundedLimit ==
    [][(response' # response /\ RegisterSucceeded(response')) =>
           \E c \in customers' \ customers :
               /\ customers' = customers \cup {c}
               /\ c.customer_id = response'.customer_id
               /\ c.monthly_salary = response'.monthly_income
               /\ c.current_debt = 0
               /\ c.total_current_emi = 0
               /\ c.approved_limit = response'.approved_limit
               /\ c.approved_limit % 100000 = 0
               /\ 2 * Abs(c.approved_limit - 36 * c.monthly_salary) <= 100000
               /\ c.monthly_salary = 100000 => c.approved_limit = 3600000]_vars

\* Income 12,500: 450,000 lies halfway and the stored limit is 400,000.
C12_Witness ==
    /\ RegisterSucceeded(response)
    /\ response.monthly_income = 12500
    /\ response.approved_limit = 400000
    /\ \E c \in customers :
           /\ c.customer_id = response.customer_id
           /\ c.approved_limit = 400000
           /\ c.current_debt = 0
           /\ c.total_current_emi = 0

\* C13: no two stored customers ever share a phone number; a register request
\* is accepted only with a phone number no stored customer has, and the
\* conflict answer (409) leaves the set of customers as it was.
PhonesUnique == \A c, d \in customers : c.phone_number = d.phone_number => c = d

RegisterConflict(r) == r.op = "register" /\ r.status = 409

RegisterAnswered(r) == r' # r /\ r'.op = "register"

C13_DuplicatePhoneRejected ==
    /\ []PhonesUnique
    /\ [][(RegisterAnswered(response) /\ RegisterSucceeded(response')) =>
               ~PhoneTaken(response'.phone_number)]_vars
    /\ [][(RegisterAnswered(response) /\ RegisterConflict(response')) =>
               (customers' = customers /\ customers # {})]_vars

\* A conflict answered while fewer customers are stored than phone numbers
\* were tried.
C13_Witness ==
    /\ RegisterConflict(response)
    /\ Cardinality(customers) = 1
    /\ \A c \in customers : c.current_debt = 0

\* C14: with create-loan requests handled one at a time, every customer's
\* current_debt stays at or below approved_limit: in every reachable state a
\* valid request whose amount would push the debt above the limit is decided
\* with score 0 and no approval, and a create-loan step stores a loan only if
\* the customer's debt plus the loan's amount is within the limit.
DebtWithinLimit == \A c \in customers : c.current_debt <= c.approved_limit

OverLimitRequestsRejected ==
    \A c \in customers, a \in Amounts, r \in Rates, t \in Tenures :
        (LoanRequestValid(a, r, t) /\ c.current_debt + a > c.approved_limit) =>
            LET decision == check_loan_eligibility(c, LoansOf(c.customer_id), a, r, t, today)
            IN  decision.credit_score = 0 /\ ~decision.approval

C14_SequentialDebtWithinLimit ==
    /\ [](DebtWithinLimit /\ OverLimitRequestsRejected)
    /\ [][response'.op = "create-loan" =>
              \A l \in loans' \ loans :
                  \E c \in customers :
                      /\ c.customer_id = l.customer_id
                      /\ c.current_debt + l.loan_amount <= c.approved_limit]_vars

\* A customer registered with limit 3,600,000 who holds a loan of 1,000 asks
\* for 3,600,000 more and is turned down for the score.
C14_Witness ==
    /\ response.op = "create-loan"
    /\ response.status = 200
    /\ response.loan_approved = FALSE
    /\ response.message = ScoreTooLowMessage
    /\ Cardinality(loans) = 1
    /\ \E c \in customers :
           /\ c.customer_id = response.customer_id
           /\ c.approved_limit = 3600000
           /\ c.current_debt = 1000

\* C15: the stored customers and loans change only in a step answered by
\* register, by an approved create-loan or by the ingestion; a step answered by
\* check-eligibility, view-loan, view-loans or a create-loan that is not
\* approved leaves both as they were, and a rejected create-loan answers with
\* a null loan id; an approved create-loan adds exactly one loan, raises that
\* customer's current_debt by the loan amount and total_current_emi by the
\* installment it returns, and touches nothing else.
ReadOnlyOps == {"check-eligibility", "view-loan", "view-loans"}

StoreUnchanged == customers' = customers /\ loans' = loans

ApprovedLoanStored ==
    \E l \in loans' \ loans, c \in customers :
        /\ loans' = loans \cup {l}
        /\ l.loan_id = response'.loan_id
        /\ l.customer_id = c.customer_id
        /\ c.customer_id = response'.customer_id
        /\ l.monthly_installment = response'.monthly_installment
        /\ customers' = (customers \ {c}) \cup
               {[c EXCEPT !.current_debt = c.current_debt + l.loan_amount,
                          !.total_current_emi =
                              c.total_current_emi + response'.monthly_installment]}

C15_FrameEffects ==
    [][/\ response' = response => StoreUnchanged
       /\ response'.op \in ReadOnlyOps => StoreUnchanged
       /\ (response'.op = "create-loan" /\ response'.status # 201) => StoreUnchanged
       /\ (response'.op = "create-loan" /\ response'.status = 200) =>
              (response'.loan_approved = FALSE /\ response'.loan_id = NullId)
       /\ (response'.op = "create-loan" /\ response'.status = 201
             /\ response' # response) => ApprovedLoanStored]_vars

\* The second approved loan of 1,000 for one customer: debt 2,000 and twice
\* the installment of 1,013.33.
C15_Witness ==
    /\ response.op = "create-loan"
    /\ response.status = 201
    /\ response.monthly_installment = 101333
    /\ Cardinality(loans) = 2
    /\ \E c \in customers :
           /\ c.customer_id = response.customer_id
           /\ c.current_debt = 2000
           /\ c.total_current_emi = 202666

\* C16: the recent-activity component is 0 if some loan of the history
\* started in the evaluation date's calendar year, has expected installments
\* elapsed > 0 and paidOnTime / expected < 0.5, and 15 otherwise: one flagged
\* loan takes the 15 points away wherever it stands in the history, the score
\* of the history read backwards is the same, and a loan started in the
\* evaluation month is never flagged.
ExpectedElapsed(loan) ==
    (Year(today) - Year(loan.start_date)) * 12 + (Month(today) - Month(loan.start_date))

Flagged(loan) ==
    /\ Year(loan.start_date) = Year(today)
    /\ ExpectedElapsed(loan) > 0
    /\ 2 * loan.emis_paid_on_time < ExpectedElapsed(loan)

Reversed(xs) == [i \in 1..Len(xs) |-> xs[Len(xs) + 1 - i]]

C16_ActivityAllOrNothing ==
    (ScoreReturned /\ RequestedTotal <= call.customer.approved_limit) =>
        LET h == call.history
            m == AggregateLoanMetrics(h, today)
            activity == IF \E i \in DOMAIN h : Flagged(h[i]) THEN 0 ELSE 15
        IN  /\ ret.value = 10 + OnTimeScore(m) + LoanVolumeScore(m)
                            + ApprovedVolumeScore(m) + activity
            /\ ret.value = calculate_credit_score(call.customer, Reversed(h),
                                                  call.loan_amount, today)
            /\ (\A i \in DOMAIN h : h[i].start_date = today) =>
                   ActivityScore(m) = W_activity

\* An unpaid loan of this year followed by a fully paid closed one of
\* 5,000,000: 10 + 6 + 5 + 15 and nothing for the activity.
C16_Witness ==
    /\ ScoreReturned
    /\ RequestedTotal <= call.customer.approved_limit
    /\ Len(call.history) = 2
    /\ Flagged(call.history[1])
    /\ ~Flagged(call.history[2])
    /\ call.history[2].loan_amount = 5000000
    /\ call.history[2].emis_paid_on_time = call.history[2].tenure
    /\ ret.value = 36

=============================================================================
